---- MODULE Spec2Model ----
(***************************************************************************)
(* A model of the testbench crate: the RaceCell (src/src/race_cell.rs),    *)
(* the concurrent_test_2 / concurrent_test_3 harness and the               *)
(* concurrent_benchmark contention runner (src/src/lib.rs).                *)
(*                                                                         *)
(* Three specifications share this module:                                 *)
(*   SpecCell  - writer and reader threads on one shared RaceCell, as in   *)
(*               tests::unprotected_race and tests::protected_transaction  *)
(*   SpecTest  - one call of concurrent_test_2 or concurrent_test_3        *)
(*   SpecBench - one call of concurrent_benchmark                          *)
(* Every atomic load and store is one step; steps of different threads     *)
(* interleave freely.                                                      *)
(***************************************************************************)
EXTENDS Integers, FiniteSets, Sequences, TLC

(***************************************************************************)
(* Bounds of the model.                                                    *)
(***************************************************************************)
\* Number of threads sharing the RaceCell.
NThreads == 2
\* Number of writes each writer carries out (WRITES_COUNT of the tests,
\* which is 100_000_000 there).
MaxWrites == 2
\* data_race_count saturates here (only "== 0" and "> WRITES_COUNT/100"
\* are ever asked of it).
MaxRaceCount == 1

Threads == 1..NThreads
Values == 0..MaxWrites

VARIABLES
    \* ---- RaceCell and its test threads ----
    local_contents,   \* RaceCell.local_contents
    remote_version,   \* RaceCell.remote_version (the boxed copy)
    initial_value,    \* the value given to RaceCell::new
    protected,        \* TRUE: the cell sits in a Mutex (protected_transaction)
    mutex,            \* 0 when the Mutex is free, else the thread holding it
    role,             \* role[t]: "writer" or "reader"
    pc,               \* pc[t]: position of thread t in its closure
    next_i,           \* writer's loop variable i
    local_data,       \* get(): the value loaded from local_contents
    remote_data,      \* get(): the value loaded from remote_version
    result,           \* what the thread's last get() returned
    last_value,       \* reader's last_value
    data_race_count,  \* reader's data_race_count
    set_args,         \* arguments of the set() calls begun so far
    \* ---- std::sync::Barrier shared by the participants of one call ----
    barrier_count,    \* arrivals of the current generation
    barrier_gen,      \* generation_id: bumped when the last party arrives
    arrived,          \* participants that have called barrier.wait()
    wait_gen,         \* wait_gen[p]: generation seen by p on entering wait()
    \* ---- one call of concurrent_test_2 / concurrent_test_3 ----
    n_tasks,          \* 2: concurrent_test_2, 3: concurrent_test_3
    tpc,              \* tpc[i]: position of spawned thread i (runs f_i)
    mpc,              \* position of the calling thread (runs f_n)
    calls,            \* calls[k]: how many times f_k has been invoked
    completed,        \* completed[k]: f_k has returned
    joined,           \* spawned threads whose JoinHandle has been joined
    reports,          \* failures the harness call has raised to its caller
    fail_cause,       \* what raised it: "task" (f_n), "join1", "join2"
    \* ---- one call of concurrent_benchmark ----
    num_iterations,   \* the num_iterations argument
    bpc,              \* position of the calling thread
    apc,              \* position of the antagonist thread
    run_flag,         \* the AtomicBool "continue" flag
    body_calls,       \* invocations of iteration_func begun so far
    ant_calls,        \* invocations of antagonist_func begun so far
    late_calls,       \* those begun after the flag was stored false
    flag_stores,      \* how many times run_flag.store(false) has run
    bench_joined,     \* antagonist.join() has returned
    bench_fail,       \* what made the call panic, "none" if nothing did
    \* ---- a RaceCell, its clone, one user thread and one writer thread ----
    x_init,           \* the value given to RaceCell::new
    src_local,        \* the source cell's local_contents
    src_remote,       \* the source cell's remote_version
    clone_local,      \* the clone's local_contents (once cloned)
    clone_remote,     \* the clone's remote_version (once cloned)
    cloned,           \* clone() has returned the clone
    upc,              \* position of the user thread
    u_cell,           \* "src" or "clone": the cell its operation is on
    u_arg,            \* the argument of its set()
    t_local,          \* local_data of get / local_copy of clone
    t_remote,         \* remote_data of get / remote_copy of clone
    u_result,         \* what its last operation, if a get(), returned
    ops_left,         \* operations the user thread may still begin
    has_writer,       \* TRUE: another thread calls set() on the source
    wpc,              \* position of that writer thread
    w_arg,            \* the argument of its set()
    writes_left,      \* set() calls the writer thread may still begin
    src_modified,     \* some store into the source has followed new
    clone_modified    \* some set() on the clone has begun

cellVars == <<local_contents, remote_version, initial_value, protected, mutex,
              role, pc, next_i, local_data, remote_data, result, last_value,
              data_race_count, set_args>>

barVars == <<barrier_count, barrier_gen, arrived, wait_gen>>

testVars == <<n_tasks, tpc, mpc, calls, completed, joined, reports,
              fail_cause>>

benchVars == <<num_iterations, bpc, apc, run_flag, body_calls, ant_calls,
               late_calls, flag_stores, bench_joined, bench_fail>>

cloneVars == <<x_init, src_local, src_remote, clone_local, clone_remote,
               cloned, upc, u_cell, u_arg, t_local, t_remote, u_result,
               ops_left, has_writer, wpc, w_arg, writes_left, src_modified,
               clone_modified>>

vars == <<cellVars, barVars, testVars, benchVars, cloneVars>>

\* What the steps of one part leave alone.
notCell == <<barVars, testVars, benchVars, cloneVars>>
notTest == <<cellVars, benchVars, cloneVars>>
notBench == <<cellVars, testVars, cloneVars>>
notClone == <<cellVars, barVars, testVars, benchVars>>

(***************************************************************************)
(* Racey<U>                                                                *)
(***************************************************************************)
Consistent(v) == <<"Consistent", v>>
Inconsistent == <<"Inconsistent">>
NoResult == <<"None">>

(***************************************************************************)
(* RaceCell operations, one step per atomic access.                        *)
(***************************************************************************)
\* RaceCell::new: both copies are built from the same value.
NewLocal(value) == value
\* (mutant) the boxed copy is built from the default value instead.
NewRemoteDefault(value) == 0
NewRemote(value) == value

\* (mutant) a comparison that returns a value it computed.
GetOutcomeSum(l, r) == IF l = r THEN Consistent(l + r) ELSE Inconsistent

\* The comparison at the end of RaceCell::get.
GetOutcome(l, r) == IF l = r THEN Consistent(l) ELSE Inconsistent

\* Mutex::lock: blocks until the mutex is free.
CanLock == mutex = 0

\* (mutant) the lock is taken without waiting for its holder.
AcquireNoWait(t) ==
    mutex' = IF protected THEN t ELSE mutex

\* "cell.lock().unwrap()" when the cell is protected, nothing otherwise.
Acquire(t) ==
    IF protected
    THEN CanLock /\ mutex' = t
    ELSE mutex' = mutex

\* The MutexGuard temporary is dropped at the end of the statement.
Release(t) ==
    mutex' = IF protected THEN 0 ELSE mutex

Min(a, b) == IF a < b THEN a ELSE b

CellInit ==
    /\ initial_value \in Values
    /\ local_contents = NewLocal(initial_value)
    /\ remote_version = NewRemote(initial_value)
    /\ protected \in BOOLEAN
    /\ mutex = 0
    /\ role \in [Threads -> {"writer", "reader"}]
    /\ pc = [t \in Threads |-> "loop"]
    /\ next_i = [t \in Threads |-> 1]
    /\ local_data = [t \in Threads |-> 0]
    /\ remote_data = [t \in Threads |-> 0]
    /\ result = [t \in Threads |-> NoResult]
    /\ last_value = [t \in Threads |-> 0]
    /\ data_race_count = [t \in Threads |-> 0]
    /\ set_args = {}

\* Writer: "for i in 1..(WRITES_COUNT+1) { cell1.set(i); }", entering set.
WriterCall(t) ==
    /\ role[t] = "writer"
    /\ pc[t] = "loop"
    /\ next_i[t] <= MaxWrites
    /\ Acquire(t)
    /\ pc' = [pc EXCEPT ![t] = "set_local"]
    /\ set_args' = set_args \cup {next_i[t]}
    /\ UNCHANGED <<local_contents, remote_version, initial_value, protected,
                   role, next_i, local_data, remote_data, result, last_value,
                   data_race_count>>
    /\ UNCHANGED notCell

\* (mutant) set forgets the local copy.
SetLocalSkipped(t) ==
    /\ pc[t] = "set_local"
    /\ pc' = [pc EXCEPT ![t] = "set_remote"]
    /\ UNCHANGED <<local_contents, remote_version, initial_value, protected,
                   mutex, role, next_i, local_data, remote_data, result,
                   last_value, data_race_count, set_args>>
    /\ UNCHANGED notCell

\* (mutant) set writes both copies in one atomic step.
SetLocalBoth(t) ==
    /\ pc[t] = "set_local"
    /\ local_contents' = next_i[t]
    /\ remote_version' = next_i[t]
    /\ pc' = [pc EXCEPT ![t] = "set_remote"]
    /\ UNCHANGED <<initial_value, protected, mutex, role,
                   next_i, local_data, remote_data, result, last_value,
                   data_race_count, set_args>>
    /\ UNCHANGED notCell

\* set: self.local_contents.relaxed_store(value.clone())
SetLocal(t) ==
    /\ pc[t] = "set_local"
    /\ local_contents' = next_i[t]
    /\ pc' = [pc EXCEPT ![t] = "set_remote"]
    /\ UNCHANGED <<remote_version, initial_value, protected, mutex, role,
                   next_i, local_data, remote_data, result, last_value,
                   data_race_count, set_args>>
    /\ UNCHANGED notCell

\* (mutant) set forgets the boxed copy.
SetRemoteSkipped(t) ==
    /\ pc[t] = "set_remote"
    /\ pc' = [pc EXCEPT ![t] = "set_ret"]
    /\ UNCHANGED <<local_contents, remote_version, initial_value, protected,
                   mutex, role, next_i, local_data, remote_data, result,
                   last_value, data_race_count, set_args>>
    /\ UNCHANGED notCell

\* set: self.remote_version.relaxed_store(value)
SetRemote(t) ==
    /\ pc[t] = "set_remote"
    /\ remote_version' = next_i[t]
    /\ pc' = [pc EXCEPT ![t] = "set_ret"]
    /\ UNCHANGED <<local_contents, initial_value, protected, mutex, role,
                   next_i, local_data, remote_data, result, last_value,
                   data_race_count, set_args>>
    /\ UNCHANGED notCell

\* (mutant) a writer whose loop counts down: set(1), set(0).
WriterReturnDescending(t) ==
    /\ pc[t] = "set_ret"
    /\ Release(t)
    /\ next_i' = [next_i EXCEPT ![t] = next_i[t] - 1]
    /\ pc' = [pc EXCEPT ![t] = IF next_i[t] - 1 >= 0 THEN "loop" ELSE "done"]
    /\ UNCHANGED <<local_contents, remote_version, initial_value, protected,
                   role, local_data, remote_data, result, last_value,
                   data_race_count, set_args>>
    /\ UNCHANGED notCell

\* set returns; the guard (if any) is dropped; the loop goes on or ends.
WriterReturn(t) ==
    /\ pc[t] = "set_ret"
    /\ Release(t)
    /\ next_i' = [next_i EXCEPT ![t] = next_i[t] + 1]
    /\ pc' = [pc EXCEPT ![t] = IF next_i[t] + 1 <= MaxWrites THEN "loop" ELSE "done"]
    /\ UNCHANGED <<local_contents, remote_version, initial_value, protected,
                   role, local_data, remote_data, result, last_value,
                   data_race_count, set_args>>
    /\ UNCHANGED notCell

\* Reader: "while last_value != WRITES_COUNT { match cell2.get() ...",
\* entering get.
ReaderCall(t) ==
    /\ role[t] = "reader"
    /\ pc[t] = "loop"
    /\ last_value[t] # MaxWrites
    /\ Acquire(t)
    /\ pc' = [pc EXCEPT ![t] = "get_local"]
    /\ UNCHANGED <<local_contents, remote_version, initial_value, protected,
                   role, next_i, local_data, remote_data, result, last_value,
                   data_race_count, set_args>>
    /\ UNCHANGED notCell

\* get: let local_data = self.local_contents.relaxed_load()
GetLocal(t) ==
    /\ pc[t] = "get_local"
    /\ local_data' = [local_data EXCEPT ![t] = local_contents]
    /\ pc' = [pc EXCEPT ![t] = "get_remote"]
    /\ UNCHANGED <<local_contents, remote_version, initial_value, protected,
                   mutex, role, next_i, remote_data, result, last_value,
                   data_race_count, set_args>>
    /\ UNCHANGED notCell

\* get: let remote_data = self.remote_version.relaxed_load()
GetRemote(t) ==
    /\ pc[t] = "get_remote"
    /\ remote_data' = [remote_data EXCEPT ![t] = remote_version]
    /\ pc' = [pc EXCEPT ![t] = "get_ret"]
    /\ UNCHANGED <<local_contents, remote_version, initial_value, protected,
                   mutex, role, next_i, local_data, result, last_value,
                   data_race_count, set_args>>
    /\ UNCHANGED notCell

\* get compares and returns; the reader's match arm records the outcome and
\* the guard (if any) is dropped.
ReaderReturn(t) ==
    /\ pc[t] = "get_ret"
    /\ LET r == GetOutcome(local_data[t], remote_data[t]) IN
         /\ result' = [result EXCEPT ![t] = r]
         /\ IF r = Inconsistent
            THEN /\ data_race_count' =
                        [data_race_count EXCEPT
                           ![t] = Min(data_race_count[t] + 1, MaxRaceCount)]
                 /\ UNCHANGED last_value
            ELSE /\ last_value' = [last_value EXCEPT ![t] = r[2]]
                 /\ UNCHANGED data_race_count
    /\ Release(t)
    /\ pc' = [pc EXCEPT ![t] = "loop"]
    /\ UNCHANGED <<local_contents, remote_version, initial_value, protected,
                   role, next_i, local_data, remote_data, set_args>>
    /\ UNCHANGED notCell

\* The reader's loop has ended: the closing assertion of the test.
\*   unprotected_race:      assert!(data_race_count > WRITES_COUNT/100)
\*   protected_transaction: assert_eq!(data_race_count, 0)
ReaderAssert(t) ==
    /\ role[t] = "reader"
    /\ pc[t] = "loop"
    /\ last_value[t] = MaxWrites
    /\ LET holds == IF protected
                    THEN data_race_count[t] = 0
                    ELSE data_race_count[t] > MaxWrites \div 100
       IN pc' = [pc EXCEPT ![t] = IF holds THEN "done" ELSE "panicked"]
    /\ UNCHANGED <<local_contents, remote_version, initial_value, protected,
                   mutex, role, next_i, local_data, remote_data, result,
                   last_value, data_race_count, set_args>>
    /\ UNCHANGED notCell


(***************************************************************************)
(* std::sync::Barrier, as used by the harness: wait() counts the arrival;  *)
(* the last party to arrive resets the count, bumps the generation and     *)
(* returns at once; the others block until the generation has changed.     *)
(***************************************************************************)
\* (mutant) the two-party barrier of concurrent_test_2 copied unchanged.
NumPartiesTwo(n) == 2
\* (mutant) a barrier that also counts a participant that never arrives.
NumPartiesPlusOne(n) == n + 1
\* Barrier::new(2) in concurrent_test_2, Barrier::new(3) in concurrent_test_3.
NumParties(n) == n

IsLeader(size) == barrier_count + 1 >= size

Arrive(p, size) ==
    /\ arrived' = arrived \cup {p}
    /\ wait_gen' = [wait_gen EXCEPT ![p] = barrier_gen]
    /\ IF IsLeader(size)
       THEN barrier_count' = 0 /\ barrier_gen' = barrier_gen + 1
       ELSE barrier_count' = barrier_count + 1 /\ UNCHANGED barrier_gen

Released(g) == barrier_gen # g

BarrierInit ==
    /\ barrier_count = 0
    /\ barrier_gen = 0
    /\ arrived = {}
    /\ wait_gen = [p \in 1..3 |-> 0]

(***************************************************************************)
(* concurrent_test_2 (n_tasks = 2) and concurrent_test_3 (n_tasks = 3).    *)
(* Participant k runs f_k: 1..n_tasks-1 are the spawned threads, n_tasks   *)
(* is the calling thread.                                                  *)
(***************************************************************************)
Spawned == 1..(n_tasks - 1)
Participants == 1..n_tasks

TestInit ==
    /\ n_tasks \in {2, 3}
    /\ tpc = [i \in 1..2 |-> "unspawned"]
    /\ mpc = "spawn1"
    /\ calls = [k \in 1..3 |-> 0]
    /\ completed = [k \in 1..3 |-> FALSE]
    /\ joined = {}
    /\ reports = 0
    /\ fail_cause = "none"

\* let thread1 = thread::spawn(...)
Spawn1 ==
    /\ mpc = "spawn1"
    /\ tpc' = [tpc EXCEPT ![1] = "start"]
    /\ mpc' = IF n_tasks = 3 THEN "spawn2" ELSE "wait"
    /\ UNCHANGED <<barVars, n_tasks, calls, completed, joined,
                   reports, fail_cause>>
    /\ UNCHANGED notTest

\* let thread2 = thread::spawn(...)   (concurrent_test_3 only)
Spawn2 ==
    /\ mpc = "spawn2"
    /\ tpc' = [tpc EXCEPT ![2] = "start"]
    /\ mpc' = "wait"
    /\ UNCHANGED <<barVars, n_tasks, calls, completed, joined,
                   reports, fail_cause>>
    /\ UNCHANGED notTest

\* Spawned thread i enters barrier<i>.wait().
TaskWait(i) ==
    /\ tpc[i] = "start"
    /\ Arrive(i, NumParties(n_tasks))
    /\ tpc' = [tpc EXCEPT ![i] =
                 IF IsLeader(NumParties(n_tasks)) THEN "ready" ELSE "blocked"]
    /\ UNCHANGED <<n_tasks, mpc, calls, completed, joined, reports, fail_cause>>
    /\ UNCHANGED notTest

\* Spawned thread i is woken up in wait(): the generation has changed.
TaskWake(i) ==
    /\ tpc[i] = "blocked"
    /\ Released(wait_gen[i])
    /\ tpc' = [tpc EXCEPT ![i] = "ready"]
    /\ UNCHANGED <<barVars, n_tasks, mpc, calls, completed, joined,
                   reports, fail_cause>>
    /\ UNCHANGED notTest

\* Spawned thread i invokes f_i.
TaskCall(i) ==
    /\ tpc[i] = "ready"
    /\ calls' = [calls EXCEPT ![i] = calls[i] + 1]
    /\ tpc' = [tpc EXCEPT ![i] = "running"]
    /\ UNCHANGED <<barVars, n_tasks, mpc, completed, joined,
                   reports, fail_cause>>
    /\ UNCHANGED notTest

\* f_i returns: the thread ends with Ok(()).
TaskReturn(i) ==
    /\ tpc[i] = "running"
    /\ completed' = [completed EXCEPT ![i] = TRUE]
    /\ tpc' = [tpc EXCEPT ![i] = "finished"]
    /\ UNCHANGED <<barVars, n_tasks, mpc, calls, joined, reports,
                   fail_cause>>
    /\ UNCHANGED notTest

\* f_i panics: the thread ends with Err(..).
TaskPanic(i) ==
    /\ tpc[i] = "running"
    /\ tpc' = [tpc EXCEPT ![i] = "panicked"]
    /\ UNCHANGED <<barVars, n_tasks, mpc, calls, completed, joined,
                   reports, fail_cause>>
    /\ UNCHANGED notTest

\* The calling thread enters barrier<n>.wait().
MainWait ==
    /\ mpc = "wait"
    /\ Arrive(n_tasks, NumParties(n_tasks))
    /\ mpc' = IF IsLeader(NumParties(n_tasks)) THEN "ready" ELSE "blocked"
    /\ UNCHANGED <<n_tasks, tpc, calls, completed, joined, reports, fail_cause>>
    /\ UNCHANGED notTest

\* The calling thread is woken up in wait().
MainWake ==
    /\ mpc = "blocked"
    /\ Released(wait_gen[n_tasks])
    /\ mpc' = "ready"
    /\ UNCHANGED <<barVars, n_tasks, tpc, calls, completed, joined,
                   reports, fail_cause>>
    /\ UNCHANGED notTest

\* The calling thread invokes f_n (f2(), resp. f3()).
MainCall ==
    /\ mpc = "ready"
    /\ calls' = [calls EXCEPT ![n_tasks] = calls[n_tasks] + 1]
    /\ mpc' = "running"
    /\ UNCHANGED <<barVars, n_tasks, tpc, completed, joined,
                   reports, fail_cause>>
    /\ UNCHANGED notTest

\* f_n returns on the calling thread, which goes on to the joins.
MainReturn ==
    /\ mpc = "running"
    /\ completed' = [completed EXCEPT ![n_tasks] = TRUE]
    /\ mpc' = "join1"
    /\ UNCHANGED <<barVars, n_tasks, tpc, calls, joined, reports,
                   fail_cause>>
    /\ UNCHANGED notTest

\* f_n panics on the calling thread: the panic unwinds out of the harness,
\* dropping (detaching) the JoinHandles that were not joined.
MainPanic ==
    /\ mpc = "running"
    /\ mpc' = "failed"
    /\ reports' = reports + 1
    /\ fail_cause' = "task"
    /\ UNCHANGED <<barVars, n_tasks, tpc, calls, completed, joined>>
    /\ UNCHANGED notTest

\* (mutant) thread1's result is dropped: "thread1.join();" without unwrap.
Join1NoUnwrap ==
    /\ mpc = "join1"
    /\ tpc[1] \in {"finished", "panicked"}
    /\ joined' = joined \cup {1}
    /\ mpc' = IF n_tasks = 3 THEN "join2" ELSE "returned"
    /\ UNCHANGED <<barVars, n_tasks, tpc, calls, completed, reports,
                   fail_cause>>
    /\ UNCHANGED notTest

\* thread1.join().unwrap(): blocks until thread1 has ended; an Err result
\* panics here, before any later statement.
Join1 ==
    /\ mpc = "join1"
    /\ tpc[1] \in {"finished", "panicked"}
    /\ joined' = joined \cup {1}
    /\ IF tpc[1] = "panicked"
       THEN /\ mpc' = "failed"
            /\ reports' = reports + 1
            /\ fail_cause' = "join1"
       ELSE /\ mpc' = IF n_tasks = 3 THEN "join2" ELSE "returned"
            /\ UNCHANGED <<reports, fail_cause>>
    /\ UNCHANGED <<barVars, n_tasks, tpc, calls, completed>>
    /\ UNCHANGED notTest

\* thread2.join().unwrap()   (concurrent_test_3 only)
Join2 ==
    /\ mpc = "join2"
    /\ tpc[2] \in {"finished", "panicked"}
    /\ joined' = joined \cup {2}
    /\ IF tpc[2] = "panicked"
       THEN /\ mpc' = "failed"
            /\ reports' = reports + 1
            /\ fail_cause' = "join2"
       ELSE /\ mpc' = "returned"
            /\ UNCHANGED <<reports, fail_cause>>
    /\ UNCHANGED <<barVars, n_tasks, tpc, calls, completed>>
    /\ UNCHANGED notTest

(***************************************************************************)
(* concurrent_benchmark. At the barrier the antagonist thread is party 1   *)
(* and the calling thread party 2.                                         *)
(***************************************************************************)
\* Bound on num_iterations.
MaxIter == 2
\* Bound on the invocations of antagonist_func within one call.
MaxAntCalls == 2

Antagonist == 1
Caller == 2

BenchInit ==
    /\ num_iterations \in 0..MaxIter
    /\ bpc = "spawn"
    /\ apc = "unspawned"
    /\ run_flag = TRUE
    /\ body_calls = 0
    /\ ant_calls = 0
    /\ late_calls = 0
    /\ flag_stores = 0
    /\ bench_joined = FALSE
    /\ bench_fail = "none"

\* let antagonist = thread::spawn(...)
BenchSpawn ==
    /\ bpc = "spawn"
    /\ apc' = "start"
    /\ bpc' = "wait"
    /\ UNCHANGED <<barVars, num_iterations, run_flag, body_calls, ant_calls,
                   late_calls, flag_stores, bench_joined, bench_fail>>
    /\ UNCHANGED notBench

\* Antagonist thread: a_barrier.wait()
AntWait ==
    /\ apc = "start"
    /\ Arrive(Antagonist, 2)
    /\ apc' = IF IsLeader(2) THEN "check" ELSE "blocked"
    /\ UNCHANGED <<num_iterations, bpc, run_flag, body_calls, ant_calls,
                   late_calls, flag_stores, bench_joined, bench_fail>>
    /\ UNCHANGED notBench

\* Antagonist thread is woken up in wait().
AntWake ==
    /\ apc = "blocked"
    /\ Released(wait_gen[Antagonist])
    /\ apc' = "check"
    /\ UNCHANGED <<barVars, num_iterations, bpc, run_flag, body_calls,
                   ant_calls, late_calls, flag_stores, bench_joined,
                   bench_fail>>
    /\ UNCHANGED notBench

\* A loop that never looks at the flag.
AntCheckIgnoresFlag ==
    /\ apc = "check"
    /\ ant_calls < MaxAntCalls
    /\ apc' = "enter"
    /\ UNCHANGED <<barVars, num_iterations, bpc, run_flag, body_calls,
                   ant_calls, late_calls, flag_stores, bench_joined,
                   bench_fail>>
    /\ UNCHANGED notBench

\* while a_run_flag.load(Ordering::Relaxed): the flag is loaded; the body is
\* about to be entered or the loop (and the thread) ends.
AntCheck ==
    /\ apc = "check"
    /\ IF run_flag
       THEN /\ ant_calls < MaxAntCalls
            /\ apc' = "enter"
       ELSE apc' = "finished"
    /\ UNCHANGED <<barVars, num_iterations, bpc, run_flag, body_calls,
                   ant_calls, late_calls, flag_stores, bench_joined,
                   bench_fail>>
    /\ UNCHANGED notBench

\* { antagonist_func(); }: the invocation begins, whatever the flag has
\* become since it was loaded.
AntEnter ==
    /\ apc = "enter"
    /\ ant_calls' = ant_calls + 1
    /\ late_calls' = IF run_flag THEN late_calls ELSE late_calls + 1
    /\ apc' = "call"
    /\ UNCHANGED <<barVars, num_iterations, bpc, run_flag, body_calls,
                   flag_stores, bench_joined, bench_fail>>
    /\ UNCHANGED notBench

\* antagonist_func() returns.
AntReturn ==
    /\ apc = "call"
    /\ apc' = "check"
    /\ UNCHANGED <<barVars, num_iterations, bpc, run_flag, body_calls,
                   ant_calls, late_calls, flag_stores, bench_joined,
                   bench_fail>>
    /\ UNCHANGED notBench

\* antagonist_func() panics: the thread ends with Err(..).
AntPanic ==
    /\ apc = "call"
    /\ apc' = "panicked"
    /\ UNCHANGED <<barVars, num_iterations, bpc, run_flag, body_calls,
                   ant_calls, late_calls, flag_stores, bench_joined,
                   bench_fail>>
    /\ UNCHANGED notBench

\* (mutant) the calling thread goes on without waiting at the barrier.
BenchWaitSkipped ==
    /\ bpc = "wait"
    /\ bpc' = "sleep"
    /\ UNCHANGED <<barVars, num_iterations, apc, run_flag, body_calls,
                   ant_calls, late_calls, flag_stores, bench_joined,
                   bench_fail>>
    /\ UNCHANGED notBench

\* Calling thread: barrier.wait()
BenchWait ==
    /\ bpc = "wait"
    /\ Arrive(Caller, 2)
    /\ bpc' = IF IsLeader(2) THEN "sleep" ELSE "blocked"
    /\ UNCHANGED <<num_iterations, apc, run_flag, body_calls, ant_calls,
                   late_calls, flag_stores, bench_joined, bench_fail>>
    /\ UNCHANGED notBench

\* Calling thread is woken up in wait().
BenchWake ==
    /\ bpc = "blocked"
    /\ Released(wait_gen[Caller])
    /\ bpc' = "sleep"
    /\ UNCHANGED <<barVars, num_iterations, apc, run_flag, body_calls,
                   ant_calls, late_calls, flag_stores, bench_joined,
                   bench_fail>>
    /\ UNCHANGED notBench

\* thread::sleep(Duration::from_millis(10)): a delay, which orders nothing.
BenchSleep ==
    /\ bpc = "sleep"
    /\ bpc' = "loop"
    /\ UNCHANGED <<barVars, num_iterations, apc, run_flag, body_calls,
                   ant_calls, late_calls, flag_stores, bench_joined,
                   bench_fail>>
    /\ UNCHANGED notBench

\* (mutant) the loop runs once too often: "0..=num_iterations".
BenchLoopInclusive ==
    /\ bpc = "loop"
    /\ IF body_calls <= num_iterations
       THEN /\ body_calls' = body_calls + 1
            /\ bpc' = "body"
       ELSE /\ bpc' = "report"
            /\ UNCHANGED body_calls
    /\ UNCHANGED <<barVars, num_iterations, apc, run_flag, ant_calls,
                   late_calls, flag_stores, bench_joined, bench_fail>>
    /\ UNCHANGED notBench

\* benchmark: "for _ in 0..num_iterations { iteration() }", one turn of the
\* loop: iteration() is entered, or the loop has ended.
BenchLoop ==
    /\ bpc = "loop"
    /\ IF body_calls < num_iterations
       THEN /\ body_calls' = body_calls + 1
            /\ bpc' = "body"
       ELSE /\ bpc' = "report"
            /\ UNCHANGED body_calls
    /\ UNCHANGED <<barVars, num_iterations, apc, run_flag, ant_calls,
                   late_calls, flag_stores, bench_joined, bench_fail>>
    /\ UNCHANGED notBench

\* iteration() returns.
BodyReturn ==
    /\ bpc = "body"
    /\ bpc' = "loop"
    /\ UNCHANGED <<barVars, num_iterations, apc, run_flag, body_calls,
                   ant_calls, late_calls, flag_stores, bench_joined,
                   bench_fail>>
    /\ UNCHANGED notBench

\* iteration() panics: the panic unwinds out of concurrent_benchmark.
BodyPanic ==
    /\ bpc = "body"
    /\ bpc' = "failed"
    /\ bench_fail' = "iteration"
    /\ UNCHANGED <<barVars, num_iterations, apc, run_flag, body_calls,
                   ant_calls, late_calls, flag_stores, bench_joined>>
    /\ UNCHANGED notBench

\* benchmark, after the loop: "total_duration * 100 / num_iterations"
\* panics when num_iterations is 0, and
\* "assert_eq!(iter_duration.as_secs(), 0)" panics when as_secs, which the
\* clock decides, is not 0. Otherwise benchmark prints and returns.
BenchReport ==
    /\ bpc = "report"
    /\ \E as_secs \in {0, 1} :
         IF num_iterations = 0
         THEN bpc' = "failed" /\ bench_fail' = "divide"
         ELSE IF as_secs # 0
              THEN bpc' = "failed" /\ bench_fail' = "assert"
              ELSE bpc' = "store" /\ UNCHANGED bench_fail
    /\ UNCHANGED <<barVars, num_iterations, apc, run_flag, body_calls,
                   ant_calls, late_calls, flag_stores, bench_joined>>
    /\ UNCHANGED notBench

\* A caller that goes on to the join without storing into the flag.
BenchStoreSkipped ==
    /\ bpc = "store"
    /\ bpc' = "join"
    /\ UNCHANGED <<barVars, num_iterations, apc, run_flag, body_calls,
                   ant_calls, late_calls, flag_stores, bench_joined,
                   bench_fail>>
    /\ UNCHANGED notBench

\* run_flag.store(false, Ordering::Relaxed)
BenchStore ==
    /\ bpc = "store"
    /\ run_flag' = FALSE
    /\ flag_stores' = flag_stores + 1
    /\ bpc' = "join"
    /\ UNCHANGED <<barVars, num_iterations, apc, body_calls, ant_calls,
                   late_calls, bench_joined, bench_fail>>
    /\ UNCHANGED notBench

\* (mutant) the handle is dropped instead of joined: the call returns
\* without waiting for the antagonist thread or looking at its result.
BenchJoinDetach ==
    /\ bpc = "join"
    /\ bpc' = "returned"
    /\ UNCHANGED <<barVars, num_iterations, apc, run_flag, body_calls,
                   ant_calls, late_calls, flag_stores, bench_joined,
                   bench_fail>>
    /\ UNCHANGED notBench

\* (mutant) the antagonist's result is dropped: "antagonist.join();".
BenchJoinNoUnwrap ==
    /\ bpc = "join"
    /\ apc \in {"finished", "panicked"}
    /\ bench_joined' = TRUE
    /\ bpc' = "returned"
    /\ UNCHANGED <<barVars, num_iterations, apc, run_flag, body_calls,
                   ant_calls, late_calls, flag_stores, bench_fail>>
    /\ UNCHANGED notBench

\* antagonist.join().unwrap(): blocks until the antagonist thread has
\* ended; an Err result panics.
BenchJoin ==
    /\ bpc = "join"
    /\ apc \in {"finished", "panicked"}
    /\ bench_joined' = TRUE
    /\ IF apc = "panicked"
       THEN bpc' = "failed" /\ bench_fail' = "join"
       ELSE bpc' = "returned" /\ UNCHANGED bench_fail
    /\ UNCHANGED <<barVars, num_iterations, apc, run_flag, body_calls,
                   ant_calls, late_calls, flag_stores>>
    /\ UNCHANGED notBench

BenchIdle ==
    /\ num_iterations = 0
    /\ bpc = "idle"
    /\ apc = "unspawned"
    /\ run_flag = TRUE
    /\ body_calls = 0
    /\ ant_calls = 0
    /\ late_calls = 0
    /\ flag_stores = 0
    /\ bench_joined = FALSE
    /\ bench_fail = "none"

(***************************************************************************)
(* A RaceCell and its clone, used by one thread (new, clone, get, set, and *)
(* the direct store into local_contents that the unit tests make), with or *)
(* without another thread calling set() on the source at the same time.    *)
(***************************************************************************)
\* Largest value stored.
MaxCloneVal == 1
\* Operations the user thread begins.
MaxOps == 3
\* set() calls of the concurrent writer.
MaxConcWrites == 1

CloneValues == 0..MaxCloneVal
Cells == {"src", "clone"}

CellLocal(c) == IF c = "src" THEN src_local ELSE clone_local
CellRemote(c) == IF c = "src" THEN src_remote ELSE clone_remote

CloneInit ==
    /\ x_init \in CloneValues
    /\ src_local = NewLocal(x_init)
    /\ src_remote = NewRemote(x_init)
    /\ clone_local = 0
    /\ clone_remote = 0
    /\ cloned = FALSE
    /\ upc = "idle"
    /\ u_cell = "src"
    /\ u_arg = 0
    /\ t_local = 0
    /\ t_remote = 0
    /\ u_result = NoResult
    /\ ops_left = MaxOps
    /\ has_writer \in BOOLEAN
    /\ wpc = "idle"
    /\ w_arg = 0
    /\ writes_left = MaxConcWrites
    /\ src_modified = FALSE
    /\ clone_modified = FALSE

CloneIdle ==
    /\ x_init = 0
    /\ src_local = NewLocal(0)
    /\ src_remote = NewRemote(0)
    /\ clone_local = 0
    /\ clone_remote = 0
    /\ cloned = FALSE
    /\ upc = "unused"
    /\ u_cell = "src"
    /\ u_arg = 0
    /\ t_local = 0
    /\ t_remote = 0
    /\ u_result = NoResult
    /\ ops_left = 0
    /\ has_writer = FALSE
    /\ wpc = "idle"
    /\ w_arg = 0
    /\ writes_left = 0
    /\ src_modified = FALSE
    /\ clone_modified = FALSE

\* The user thread begins an operation on cell c, which exists.
Begins(c) ==
    /\ upc = "idle"
    /\ ops_left > 0
    /\ c = "clone" => cloned
    /\ ops_left' = ops_left - 1
    /\ u_cell' = c
    /\ u_result' = NoResult

\* tests::inconsistent_read, tests::clone:
\* cell.local_contents.relaxed_store(v), on the source.
Poke(v) ==
    /\ Begins("src")
    /\ src_local' = v
    /\ src_modified' = TRUE
    /\ UNCHANGED <<x_init, src_remote, clone_local, clone_remote, cloned, upc,
                   u_arg, t_local, t_remote, has_writer, wpc, w_arg,
                   writes_left, clone_modified>>
    /\ UNCHANGED notClone

\* The user thread calls c.set(v).
UserSetCall(c, v) ==
    /\ Begins(c)
    /\ upc' = "set_local"
    /\ u_arg' = v
    /\ src_modified' = (src_modified \/ c = "src")
    /\ clone_modified' = (clone_modified \/ c = "clone")
    /\ UNCHANGED <<x_init, src_local, src_remote, clone_local, clone_remote,
                   cloned, t_local, t_remote, has_writer, wpc, w_arg,
                   writes_left>>
    /\ UNCHANGED notClone

\* set: self.local_contents.relaxed_store(value.clone())
UserSetLocal ==
    /\ upc = "set_local"
    /\ IF u_cell = "src"
       THEN src_local' = u_arg /\ UNCHANGED clone_local
       ELSE clone_local' = u_arg /\ UNCHANGED src_local
    /\ upc' = "set_remote"
    /\ UNCHANGED <<x_init, src_remote, clone_remote, cloned, u_cell, u_arg,
                   t_local, t_remote, u_result, ops_left, has_writer, wpc,
                   w_arg, writes_left, src_modified, clone_modified>>
    /\ UNCHANGED notClone

\* set on a clone that shares the remote slot with its source.
UserSetRemoteShared ==
    /\ upc = "set_remote"
    /\ IF u_cell = "src"
       THEN /\ src_remote' = u_arg
            /\ clone_remote' = IF cloned THEN u_arg ELSE clone_remote
       ELSE /\ clone_remote' = u_arg
            /\ src_remote' = u_arg
    /\ upc' = "idle"
    /\ u_arg' = 0
    /\ UNCHANGED <<x_init, src_local, clone_local, cloned, u_cell, t_local,
                   t_remote, u_result, ops_left, has_writer, wpc, w_arg,
                   writes_left, src_modified, clone_modified>>
    /\ UNCHANGED notClone

\* set: self.remote_version.relaxed_store(value); set returns.
UserSetRemote ==
    /\ upc = "set_remote"
    /\ IF u_cell = "src"
       THEN src_remote' = u_arg /\ UNCHANGED clone_remote
       ELSE clone_remote' = u_arg /\ UNCHANGED src_remote
    /\ upc' = "idle"
    /\ u_arg' = 0
    /\ UNCHANGED <<x_init, src_local, clone_local, cloned, u_cell, t_local,
                   t_remote, u_result, ops_left, has_writer, wpc, w_arg,
                   writes_left, src_modified, clone_modified>>
    /\ UNCHANGED notClone

\* The user thread calls c.get().
UserGetCall(c) ==
    /\ Begins(c)
    /\ upc' = "get_local"
    /\ UNCHANGED <<x_init, src_local, src_remote, clone_local, clone_remote,
                   cloned, u_arg, t_local, t_remote, has_writer, wpc, w_arg,
                   writes_left, src_modified, clone_modified>>
    /\ UNCHANGED notClone

\* get: let local_data = self.local_contents.relaxed_load()
UserGetLocal ==
    /\ upc = "get_local"
    /\ t_local' = CellLocal(u_cell)
    /\ upc' = "get_remote"
    /\ UNCHANGED <<x_init, src_local, src_remote, clone_local, clone_remote,
                   cloned, u_cell, u_arg, t_remote, u_result, ops_left,
                   has_writer, wpc, w_arg, writes_left, src_modified,
                   clone_modified>>
    /\ UNCHANGED notClone

\* get whose second load reads the local slot again.
UserGetRemoteFromLocal ==
    /\ upc = "get_remote"
    /\ t_remote' = CellLocal(u_cell)
    /\ upc' = "get_ret"
    /\ UNCHANGED <<x_init, src_local, src_remote, clone_local, clone_remote,
                   cloned, u_cell, u_arg, t_local, u_result, ops_left,
                   has_writer, wpc, w_arg, writes_left, src_modified,
                   clone_modified>>
    /\ UNCHANGED notClone

\* get: let remote_data = self.remote_version.relaxed_load()
UserGetRemote ==
    /\ upc = "get_remote"
    /\ t_remote' = CellRemote(u_cell)
    /\ upc' = "get_ret"
    /\ UNCHANGED <<x_init, src_local, src_remote, clone_local, clone_remote,
                   cloned, u_cell, u_arg, t_local, u_result, ops_left,
                   has_writer, wpc, w_arg, writes_left, src_modified,
                   clone_modified>>
    /\ UNCHANGED notClone

\* get: the comparison; get returns.
UserGetReturn ==
    /\ upc = "get_ret"
    /\ u_result' = GetOutcome(t_local, t_remote)
    /\ upc' = "idle"
    /\ t_local' = 0
    /\ t_remote' = 0
    /\ UNCHANGED <<x_init, src_local, src_remote, clone_local, clone_remote,
                   cloned, u_cell, u_arg, ops_left, has_writer, wpc, w_arg,
                   writes_left, src_modified, clone_modified>>
    /\ UNCHANGED notClone

\* The user thread calls clone() on the source.
CloneCall ==
    /\ ~cloned
    /\ Begins("src")
    /\ upc' = "clone_local"
    /\ UNCHANGED <<x_init, src_local, src_remote, clone_local, clone_remote,
                   cloned, u_arg, t_local, t_remote, has_writer, wpc, w_arg,
                   writes_left, src_modified, clone_modified>>
    /\ UNCHANGED notClone

\* clone: let local_copy = self.local_contents.relaxed_load()
CloneLoadLocal ==
    /\ upc = "clone_local"
    /\ t_local' = src_local
    /\ upc' = "clone_remote"
    /\ UNCHANGED <<x_init, src_local, src_remote, clone_local, clone_remote,
                   cloned, u_cell, u_arg, t_remote, u_result, ops_left,
                   has_writer, wpc, w_arg, writes_left, src_modified,
                   clone_modified>>
    /\ UNCHANGED notClone

\* clone whose second load reads the local slot again.
CloneLoadRemoteFromLocal ==
    /\ upc = "clone_remote"
    /\ t_remote' = src_local
    /\ upc' = "clone_new"
    /\ UNCHANGED <<x_init, src_local, src_remote, clone_local, clone_remote,
                   cloned, u_cell, u_arg, t_local, u_result, ops_left,
                   has_writer, wpc, w_arg, writes_left, src_modified,
                   clone_modified>>
    /\ UNCHANGED notClone

\* clone: let remote_copy = self.remote_version.relaxed_load()
CloneLoadRemote ==
    /\ upc = "clone_remote"
    /\ t_remote' = src_remote
    /\ upc' = "clone_new"
    /\ UNCHANGED <<x_init, src_local, src_remote, clone_local, clone_remote,
                   cloned, u_cell, u_arg, t_local, u_result, ops_left,
                   has_writer, wpc, w_arg, writes_left, src_modified,
                   clone_modified>>
    /\ UNCHANGED notClone

\* clone that builds a default cell instead of copying the loads.
CloneNewDefault ==
    /\ upc = "clone_new"
    /\ clone_local' = 0
    /\ clone_remote' = 0
    /\ cloned' = TRUE
    /\ upc' = "idle"
    /\ t_local' = 0
    /\ t_remote' = 0
    /\ UNCHANGED <<x_init, src_local, src_remote, u_cell, u_arg, u_result,
                   ops_left, has_writer, wpc, w_arg, writes_left,
                   src_modified, clone_modified>>
    /\ UNCHANGED notClone

\* clone: RaceCell { local_contents: T::new(local_copy),
\*                   remote_version: Box::new(T::new(remote_copy)), .. }
CloneNew ==
    /\ upc = "clone_new"
    /\ clone_local' = NewLocal(t_local)
    /\ clone_remote' = NewRemote(t_remote)
    /\ cloned' = TRUE
    /\ upc' = "idle"
    /\ t_local' = 0
    /\ t_remote' = 0
    /\ UNCHANGED <<x_init, src_local, src_remote, u_cell, u_arg, u_result,
                   ops_left, has_writer, wpc, w_arg, writes_left,
                   src_modified, clone_modified>>
    /\ UNCHANGED notClone

\* The writer thread calls set(v) on the source.
ConcSetCall(v) ==
    /\ has_writer
    /\ wpc = "idle"
    /\ writes_left > 0
    /\ writes_left' = writes_left - 1
    /\ w_arg' = v
    /\ wpc' = "set_local"
    /\ src_modified' = TRUE
    /\ UNCHANGED <<x_init, src_local, src_remote, clone_local, clone_remote,
                   cloned, upc, u_cell, u_arg, t_local, t_remote, u_result,
                   ops_left, has_writer, clone_modified>>
    /\ UNCHANGED notClone

\* set: self.local_contents.relaxed_store(value.clone())
ConcSetLocal ==
    /\ wpc = "set_local"
    /\ src_local' = w_arg
    /\ wpc' = "set_remote"
    /\ UNCHANGED <<x_init, src_remote, clone_local, clone_remote, cloned, upc,
                   u_cell, u_arg, t_local, t_remote, u_result, ops_left,
                   has_writer, w_arg, writes_left, src_modified,
                   clone_modified>>
    /\ UNCHANGED notClone

\* set: self.remote_version.relaxed_store(value); set returns.
ConcSetRemote ==
    /\ wpc = "set_remote"
    /\ src_remote' = w_arg
    /\ wpc' = "idle"
    /\ w_arg' = 0
    /\ UNCHANGED <<x_init, src_local, clone_local, clone_remote, cloned, upc,
                   u_cell, u_arg, t_local, t_remote, u_result, ops_left,
                   has_writer, writes_left, src_modified, clone_modified>>
    /\ UNCHANGED notClone

(***************************************************************************)
(* The specifications. Each runs one part; the variables of the other      *)
(* parts stay as they were initialised.                                    *)
(***************************************************************************)
CellIdle ==
    /\ initial_value = 0
    /\ local_contents = NewLocal(0)
    /\ remote_version = NewRemote(0)
    /\ protected = FALSE
    /\ mutex = 0
    /\ role = [t \in Threads |-> "reader"]
    /\ pc = [t \in Threads |-> "done"]
    /\ next_i = [t \in Threads |-> 1]
    /\ local_data = [t \in Threads |-> 0]
    /\ remote_data = [t \in Threads |-> 0]
    /\ result = [t \in Threads |-> NoResult]
    /\ last_value = [t \in Threads |-> 0]
    /\ data_race_count = [t \in Threads |-> 0]
    /\ set_args = {}

TestIdle ==
    /\ n_tasks = 2
    /\ tpc = [i \in 1..2 |-> "unspawned"]
    /\ mpc = "idle"
    /\ calls = [k \in 1..3 |-> 0]
    /\ completed = [k \in 1..3 |-> FALSE]
    /\ joined = {}
    /\ reports = 0
    /\ fail_cause = "none"

InitCell == CellInit /\ BarrierInit /\ TestIdle /\ BenchIdle /\ CloneIdle

NextCell ==
    \E t \in Threads :
        \/ WriterCall(t)
        \/ SetLocal(t)
        \/ SetRemote(t)
        \/ WriterReturn(t)
        \/ ReaderCall(t)
        \/ GetLocal(t)
        \/ GetRemote(t)
        \/ ReaderReturn(t)
        \/ ReaderAssert(t)

SpecCell == InitCell /\ [][NextCell]_vars

\* Any step of thread t. The threads are operating-system threads: each one
\* that can take a step eventually does.
CellThreadStep(t) ==
    \/ WriterCall(t)
    \/ SetLocal(t)
    \/ SetRemote(t)
    \/ WriterReturn(t)
    \/ ReaderCall(t)
    \/ GetLocal(t)
    \/ GetRemote(t)
    \/ ReaderReturn(t)
    \/ ReaderAssert(t)

\* tests::unprotected_race: the cell starts at 0, no Mutex, thread 1 writes,
\* the others read.
InitRace ==
    /\ InitCell
    /\ initial_value = 0
    /\ ~protected
    /\ role = [t \in Threads |-> IF t = 1 THEN "writer" ELSE "reader"]

SpecCellFair ==
    /\ InitRace
    /\ [][NextCell]_vars
    /\ \A t \in Threads : WF_vars(CellThreadStep(t))

InitTest == TestInit /\ BarrierInit /\ CellIdle /\ BenchIdle /\ CloneIdle

NextTest ==
    \/ Spawn1
    \/ Spawn2
    \/ \E i \in 1..2 :
          \/ TaskWait(i)
          \/ TaskWake(i)
          \/ TaskCall(i)
          \/ TaskReturn(i)
          \/ TaskPanic(i)
    \/ MainWait
    \/ MainWake
    \/ MainCall
    \/ MainReturn
    \/ MainPanic
    \/ Join1
    \/ Join2

SpecTest == InitTest /\ [][NextTest]_vars

\* The steps of the calling thread and of spawned thread i. A participant
\* function that has been called ends, by returning or by panicking.
MainStep ==
    \/ Spawn1
    \/ Spawn2
    \/ MainWait
    \/ MainWake
    \/ MainCall
    \/ MainReturn
    \/ MainPanic
    \/ Join1
    \/ Join2

TaskStep(i) ==
    \/ TaskWait(i)
    \/ TaskWake(i)
    \/ TaskCall(i)
    \/ TaskReturn(i)
    \/ TaskPanic(i)

\* concurrent_test_2/3 with every thread scheduled fairly.
SpecTestFair ==
    /\ InitTest
    /\ [][NextTest]_vars
    /\ WF_vars(MainStep)
    /\ \A i \in 1..2 : WF_vars(TaskStep(i))

InitBench == BenchInit /\ BarrierInit /\ CellIdle /\ TestIdle /\ CloneIdle

NextBench ==
    \/ BenchSpawn
    \/ AntWait
    \/ AntWake
    \/ AntCheck
    \/ AntEnter
    \/ AntReturn
    \/ AntPanic
    \/ BenchWait
    \/ BenchWake
    \/ BenchSleep
    \/ BenchLoop
    \/ BodyReturn
    \/ BodyPanic
    \/ BenchReport
    \/ BenchStore
    \/ BenchJoin

SpecBench == InitBench /\ [][NextBench]_vars

\* The antagonist thread's steps. An invocation of antagonist_func that has
\* begun ends, by returning or by panicking.
AntagonistStep ==
    \/ AntWait
    \/ AntWake
    \/ AntCheck
    \/ AntEnter
    \/ AntReturn
    \/ AntPanic

\* concurrent_benchmark with an antagonist thread that is scheduled fairly.
SpecBenchFair ==
    /\ InitBench
    /\ [][NextBench]_vars
    /\ WF_vars(AntagonistStep)

InitClone == CloneInit /\ BarrierInit /\ CellIdle /\ TestIdle /\ BenchIdle

NextClone ==
    \/ \E v \in CloneValues : Poke(v)
    \/ \E c \in Cells : \E v \in CloneValues : UserSetCall(c, v)
    \/ UserSetLocal
    \/ UserSetRemote
    \/ \E c \in Cells : UserGetCall(c)
    \/ UserGetLocal
    \/ UserGetRemote
    \/ UserGetReturn
    \/ CloneCall
    \/ CloneLoadLocal
    \/ CloneLoadRemote
    \/ CloneNew
    \/ \E v \in CloneValues : ConcSetCall(v)
    \/ ConcSetLocal
    \/ ConcSetRemote

SpecClone == InitClone /\ [][NextClone]_vars

(***************************************************************************)
(* Properties of the RaceCell under SpecCell.                              *)
(***************************************************************************)
Writers == {t \in Threads : role[t] = "writer"}
Readers == {t \in Threads : role[t] = "reader"}

\* C1: when every set() and get() runs under the same mutex, no get() ever
\* returns Inconsistent, whatever the number of writers and readers: no
\* reader holds an Inconsistent outcome, has counted a data race, has loaded
\* two different values, or fails the closing assert_eq!(data_race_count, 0).
C1_ProtectedNeverInconsistent ==
    protected =>
        \A t \in Threads :
            /\ result[t] # Inconsistent
            /\ data_race_count[t] = 0
            /\ pc[t] # "panicked"
            /\ (pc[t] = "get_ret" => local_data[t] = remote_data[t])

\* C1 witness: under the mutex, a reader has obtained a written value and
\* a writer is now inside set() between its two stores, the slots differing.
C1_Witness ==
    /\ protected
    /\ \E r \in Readers : result[r] = Consistent(1)
    /\ \E w \in Writers : pc[w] = "set_remote" /\ local_contents # remote_version

\* C2: with one writer calling set(i) for increasing i on a cell created
\* with 0 and no locking, divergence is observable: while the writer is
\* between its two stores, a get() whose local load already saw the new
\* value finds the old value in the remote slot, so it returns Inconsistent.
C2_DivergenceObservable ==
    (~protected /\ Cardinality(Writers) = 1 /\ initial_value = 0) =>
        \A w \in Writers : \A r \in Readers :
            (pc[w] = "set_remote" /\ pc[r] = "get_remote"
                /\ local_data[r] = next_i[w])
            => GetOutcome(local_data[r], remote_version) = Inconsistent

\* C2 witness: one writer, no locking, and a get() has returned Inconsistent
\* to a reader, which has counted it.
C2_Witness ==
    /\ ~protected
    /\ Cardinality(Writers) = 1
    /\ initial_value = 0
    /\ \E r \in Readers : result[r] = Inconsistent /\ data_race_count[r] >= 1

\* C3: for every value v, as long as no set() has begun on a cell created by
\* RaceCell::new(v), both slots hold v and every get() returned Consistent(v).
C3_NewIsConsistent ==
    set_args = {} =>
        /\ local_contents = initial_value
        /\ remote_version = initial_value
        /\ \A t \in Threads :
              result[t] # NoResult => result[t] = Consistent(initial_value)

\* C3 witness: a get() has returned Consistent(v), v not 0, before any set().
C3_Witness ==
    /\ set_args = {}
    /\ initial_value # 0
    /\ \E t \in Readers : result[t] = Consistent(initial_value)

(***************************************************************************)
(* Properties of concurrent_test_2 / concurrent_test_3 under SpecTest.     *)
(***************************************************************************)
\* C4: no participant function f1, f2, f3 begins running before all the
\* participants of the call (the spawned threads and the caller) have
\* arrived at the barrier.
C4_StartAfterAllArrived ==
    \A k \in Participants : calls[k] >= 1 => arrived = Participants

\* C4 witness: in concurrent_test_3, f3 is running on the calling thread
\* while a spawned thread has not yet woken up from the barrier.
C4_Witness ==
    /\ n_tasks = 3
    /\ mpc = "running"
    /\ \E i \in Spawned : tpc[i] = "blocked"

\* C5: if a function run on a spawned thread panics, the harness call does
\* not return normally; it raises the failure to its caller exactly once,
\* and only after every spawned thread has been joined.
C5_SpawnedFailureAfterAllJoins ==
    /\ mpc = "returned" => \A i \in Spawned : tpc[i] # "panicked"
    /\ (mpc = "failed" /\ fail_cause \in {"join1", "join2"}) =>
          (reports = 1 /\ joined = Spawned)

\* C6: whenever the harness call exits with a failure, also when the
\* function run on the calling thread is what failed, every thread the
\* harness spawned has already been joined.
C6_NoLeakOnErrorPath ==
    mpc = "failed" => joined = Spawned

\* C7: when the harness call returns normally, each of its functions has
\* been invoked exactly once and has run to completion, and every spawned
\* thread has been joined; no function is ever invoked twice.
C7_NormalReturn ==
    /\ \A k \in 1..3 : calls[k] <= 1
    /\ mpc = "returned" =>
          /\ \A k \in Participants : calls[k] = 1 /\ completed[k]
          /\ joined = Spawned
          /\ \A i \in Spawned : tpc[i] = "finished"

\* C7 witness: concurrent_test_3 has returned normally.
C7_Witness ==
    /\ n_tasks = 3
    /\ mpc = "returned"
    /\ joined = {1, 2}

(***************************************************************************)
(* Properties of concurrent_benchmark under SpecBench.                     *)
(***************************************************************************)
(***************************************************************************)
(* Termination of concurrent_test_2/3 under SpecTestFair.                  *)
(***************************************************************************)
\* C20: with fair scheduling and participant functions that end, all N
\* participants and no more arrive at the N-party barrier, which opens once;
\* no thread stays blocked at the barrier, a join that has begun completes,
\* every spawned thread ends and the call ends.
C20_TestTerminates ==
    /\ [](Cardinality(arrived) <= n_tasks /\ barrier_gen <= 1)
    /\ <>(arrived = Participants /\ barrier_gen = 1 /\ barrier_count = 0)
    /\ \A i \in 1..2 : (tpc[i] = "blocked" ~> tpc[i] # "blocked")
    /\ (mpc = "blocked" ~> mpc # "blocked")
    /\ (mpc = "join1" ~> mpc # "join1")
    /\ (mpc = "join2" ~> mpc # "join2")
    /\ <>(\A i \in Spawned : tpc[i] \in {"finished", "panicked"})
    /\ <>(mpc \in {"returned", "failed"})

\* C20 witness: concurrent_test_3 has returned normally after all three
\* participants passed the barrier and both spawned threads ended.
C20_Witness ==
    /\ n_tasks = 3
    /\ arrived = {1, 2, 3}
    /\ barrier_gen = 1
    /\ \A i \in Spawned : tpc[i] = "finished"
    /\ mpc = "returned"
    /\ reports = 0

\* C8: after concurrent_benchmark has returned, the antagonist thread has
\* ended and been joined, and from then on no invocation of the antagonist
\* begins or is running.
C8_AntagonistStoppedOnReturn ==
    /\ [](bpc = "returned" => (apc = "finished" /\ bench_joined))
    /\ [][bpc = "returned" => (ant_calls' = ant_calls /\ apc' = "finished")]_vars

\* C8 witness: the call has returned after the antagonist ran at least once
\* beside a measured operation that ran at least once.
C8_Witness ==
    /\ bpc = "returned"
    /\ ant_calls >= 1
    /\ body_calls >= 1

\* C9: if the antagonist function panics in any of its invocations, the
\* concurrent_benchmark call does not return normally; once the join has
\* seen the antagonist's failure the call has failed, raised by the join.
C9_AntagonistFailurePropagates ==
    /\ bpc = "returned" => apc # "panicked"
    /\ (bench_joined /\ apc = "panicked") =>
          (bpc = "failed" /\ bench_fail = "join")

\* C9 witness: the antagonist panicked in its second invocation and the call
\* failed at the join.
C9_Witness ==
    /\ apc = "panicked"
    /\ ant_calls = 2
    /\ bpc = "failed"
    /\ bench_fail = "join"

C11_BodyInvokedNTimes ==
    /\ body_calls <= num_iterations
    /\ bpc = "body" => body_calls >= 1
    /\ (bpc \in {"report", "store", "join", "returned"}
          \/ (bpc = "failed" /\ bench_fail # "iteration"))
       => body_calls = num_iterations

\* C11 witness: the call has returned after the largest number of iterations.
C11_Witness ==
    /\ bpc = "returned"
    /\ num_iterations = MaxIter
    /\ body_calls = MaxIter

\* C12: with one writer performing set(1), ..., set(K) and readers looping
\* on get() without locking, under fair scheduling every reader eventually
\* obtains Consistent(K) and so leaves its loop; once the writer has
\* finished both slots hold K, so a get() that loads them from then on
\* returns Consistent(K).
C12_ReaderEventuallySeesFinalValue ==
    /\ [](\A w \in Threads :
            (role[w] = "writer" /\ pc[w] = "done") =>
                /\ local_contents = MaxWrites
                /\ remote_version = MaxWrites
                /\ \A r \in Threads :
                      (pc[r] = "get_remote" /\ local_data[r] = MaxWrites)
                      => GetOutcome(local_data[r], remote_version)
                            = Consistent(MaxWrites))
    /\ <>(\A r \in Threads :
            role[r] = "reader" =>
                (last_value[r] = MaxWrites /\ pc[r] \in {"done", "panicked"}))

\* C12 witness: the writer has finished and the unsynchronised reader, after
\* seeing a race and the intermediate values, has left its loop with K.
C12_Witness ==
    /\ ~protected
    /\ initial_value = 0
    /\ \E w \in Writers : pc[w] = "done"
    /\ \E r \in Readers :
          /\ pc[r] = "done"
          /\ last_value[r] = MaxWrites
          /\ result[r] = Consistent(MaxWrites)
          /\ data_race_count[r] >= 1

\* C13 as claimed: for any number of threads calling set concurrently, in
\* every reachable state in which no set() is in progress the local slot
\* equals the remote slot.
C13_SlotsEqualWhenNoSetInProgress ==
    (\A t \in Threads : pc[t] \notin {"set_local", "set_remote", "set_ret"})
    => local_contents = remote_version

\* C13 as amended: when the set() calls do not overlap one another (a single
\* writer, or writers serialised by the mutex), the two slots differ only
\* while some set() has stored into the local slot but not yet into the
\* remote slot; with no set() in progress they are equal.
C13_SlotsEqualWithoutOverlappingSets ==
    (protected \/ Cardinality(Writers) <= 1) =>
        (local_contents # remote_version
            => \E t \in Threads : role[t] = "writer" /\ pc[t] = "set_remote")

\* C13 witness: a single unsynchronised writer is inside set(2), between
\* its two stores, and the slots differ.
C13_Witness ==
    /\ ~protected
    /\ Cardinality(Writers) = 1
    /\ \E w \in Writers : pc[w] = "set_remote" /\ next_i[w] = 2
    /\ local_contents = 2
    /\ remote_version = 1

\* C14: with no concurrent writer, the clone of a cell fresh from new(x)
\* holds x in both slots, and get() on that clone returns Consistent(x).
C14_CloneOfNewIsConsistent ==
    (~has_writer /\ ~src_modified /\ cloned /\ ~clone_modified) =>
        /\ clone_local = x_init
        /\ clone_remote = x_init
        /\ (upc = "idle" /\ u_cell = "clone" /\ u_result # NoResult)
              => u_result = <<"Consistent", x_init>>

C14_Witness ==
    /\ ~has_writer
    /\ ~src_modified
    /\ cloned
    /\ ~clone_modified
    /\ x_init = MaxCloneVal
    /\ upc = "idle"
    /\ u_cell = "clone"
    /\ u_result = <<"Consistent", MaxCloneVal>>

\* C15: with no concurrent writer, the step that constructs the clone gives
\* it the source's local slot as local slot and the source's remote slot as
\* remote slot, so the clone of a cell whose slots differ has slots that
\* differ.
C15_CloneCopiesSlotBySlot ==
    /\ [][(~has_writer /\ ~cloned /\ cloned') =>
            (clone_local' = src_local /\ clone_remote' = src_remote)]_vars
    /\ [][(~has_writer /\ ~cloned /\ cloned' /\ src_local # src_remote) =>
            clone_local' # clone_remote']_vars

C15_Witness ==
    /\ ~has_writer
    /\ cloned
    /\ ~clone_modified
    /\ src_local # src_remote
    /\ clone_local = src_local
    /\ clone_remote = src_remote
    /\ upc = "idle"
    /\ u_cell = "clone"
    /\ u_result = <<"Inconsistent">>

\* C16: get() loads the local slot, then the remote slot, and returns
\* Consistent(local value) exactly when the loaded values are equal and
\* Inconsistent exactly when they differ; with no writer active the loaded
\* values are the cell's slots, so a cell whose slots differ yields
\* Inconsistent.
C16_GetComparesTheTwoLoads ==
    /\ [][(upc = "get_local" /\ upc' # upc) =>
            (upc' = "get_remote" /\ t_local' = CellLocal(u_cell))]_vars
    /\ [][(upc = "get_remote" /\ upc' # upc) =>
            (upc' = "get_ret" /\ t_remote' = CellRemote(u_cell)
                              /\ t_local' = t_local)]_vars
    /\ [][(upc = "get_ret" /\ upc' # upc) =>
            /\ (t_local = t_remote <=> u_result' = <<"Consistent", t_local>>)
            /\ (t_local # t_remote <=> u_result' = <<"Inconsistent">>)]_vars
    /\ [][(~has_writer /\ upc = "get_ret" /\ upc' # upc) =>
            u_result' = IF CellLocal(u_cell) = CellRemote(u_cell)
                        THEN <<"Consistent", CellLocal(u_cell)>>
                        ELSE <<"Inconsistent">>]_vars

C16_Witness ==
    /\ ~has_writer
    /\ ~cloned
    /\ upc = "idle"
    /\ u_cell = "src"
    /\ src_local # src_remote
    /\ u_result = <<"Inconsistent">>

\* C17: every call of concurrent_benchmark that has ended, by returning or
\* by panicking, has cleared the continuation flag and has joined an
\* antagonist thread that has stopped.
C17_EndsWithAntagonistStopped ==
    bpc \in {"returned", "failed"} =>
        /\ ~run_flag
        /\ bench_joined
        /\ apc \in {"finished", "panicked"}

\* C18: once the flag has been stored false the antagonist thread begins at
\* most one further invocation of antagonist_func, a load of the flag made
\* after the store ends the loop, and the thread ends (its invocations
\* ending).
C18_CancelledAtNextIteration ==
    /\ [](late_calls <= 1)
    /\ [][(~run_flag /\ apc = "check" /\ apc' # apc) => apc' = "finished"]_vars
    /\ (~run_flag ~> apc \in {"finished", "panicked"})

\* C18 witness: the antagonist thread has ended after one invocation begun
\* when the flag was already false.
C18_Witness ==
    /\ ~run_flag
    /\ late_calls = 1
    /\ apc = "finished"

\* C19: the flag is true until all iterations of the measured operation
\* have been made; it is stored false at most once, never before benchmark()
\* has returned, always before the join, exactly once in a call that has
\* reached the join or returned, and never becomes true again.
C19_FlagClearedOnceAfterMeasurement ==
    /\ [](flag_stores <= 1)
    /\ [](run_flag <=> flag_stores = 0)
    /\ [](~run_flag => body_calls = num_iterations)
    /\ [](~run_flag => bpc \in {"join", "returned", "failed"})
    /\ []((bpc \in {"join", "returned"} \/ bench_joined) => flag_stores = 1)
    /\ [][~run_flag => ~run_flag']_vars
    /\ [][run_flag' # run_flag => (bpc = "store" /\ bpc' = "join")]_vars

\* C19 witness: the flag has been stored false after two iterations of the
\* measured operation and the antagonist thread has not been joined yet.
C19_Witness ==
    /\ ~run_flag
    /\ flag_stores = 1
    /\ num_iterations = MaxIter
    /\ body_calls = MaxIter
    /\ bpc = "join"
    /\ ~bench_joined

\* C21: the clone and its source are independent: a step of set() on the
\* clone leaves both slots of the source unchanged; once the clone exists,
\* its slots change only in a step of set() on the clone, so no store into
\* the source changes them; and the steps of clone() leave the source's
\* slots unchanged.
C21_CloneIndependentOfSource ==
    /\ [][(u_cell = "clone" /\ upc \in {"set_local", "set_remote"}
             /\ upc' # upc) =>
            (src_local' = src_local /\ src_remote' = src_remote)]_vars
    /\ [][(cloned /\ (src_local' # src_local \/ src_remote' # src_remote)) =>
            (clone_local' = clone_local /\ clone_remote' = clone_remote)]_vars
    /\ [][(cloned /\ (clone_local' # clone_local
                        \/ clone_remote' # clone_remote)) =>
            (u_cell = "clone" /\ upc \in {"set_local", "set_remote"})]_vars
    /\ [][(upc \in {"clone_local", "clone_remote", "clone_new"}
             /\ upc' # upc) =>
            (src_local' = src_local /\ src_remote' = src_remote)]_vars

\* C21 witness: a set() on the clone has returned, the clone holds the new
\* value in both slots and the source, never stored into, still holds the
\* value given to new.
C21_Witness ==
    /\ cloned
    /\ clone_modified
    /\ ~src_modified
    /\ upc = "idle"
    /\ u_cell = "clone"
    /\ clone_local = clone_remote
    /\ clone_local # x_init
    /\ src_local = x_init
    /\ src_remote = x_init

\* C22: with an iteration count of zero the measured operation is never
\* invoked and the call does not fail.
C22_ZeroIterationsCompletes ==
    num_iterations = 0 => (body_calls = 0 /\ bpc # "failed")

\* C23: whenever a get() returns Consistent(v), v is the value the cell was
\* created with or the argument of a set() that had begun before the get()
\* returned, whatever the threads' roles and with or without the mutex.
C23_GetNeverInventsAValue ==
    /\ [](\A t \in Threads :
            result[t][1] = "Consistent" =>
                result[t][2] \in ({initial_value} \cup set_args))
    /\ [][\A t \in Threads :
            (pc[t] = "get_ret" /\ pc'[t] # "get_ret"
                /\ result'[t][1] = "Consistent") =>
                result'[t][2] \in ({initial_value} \cup set_args)]_vars

\* C23 witness: without the mutex, a reader has obtained Consistent of the
\* last value written, in a cell created with another value.
C23_Witness ==
    /\ ~protected
    /\ initial_value = 0
    /\ MaxWrites \in set_args
    /\ \E t \in Readers : result[t] = <<"Consistent", MaxWrites>>

\* C24: with one writer calling set(1), set(2), ... and one reader, without
\* the mutex, on a cell created with a value not above the first one written
\* (0 in unprotected_race), a get() that returns Consistent(v) returns a v
\* not smaller than the value of the reader's previous Consistent outcome.
C24_ConsistentValuesNonDecreasing ==
    [][(/\ ~protected
        /\ initial_value <= 1
        /\ Cardinality(Writers) = 1
        /\ Cardinality(Readers) = 1) =>
          \A t \in Readers :
            (pc[t] = "get_ret" /\ pc'[t] # "get_ret"
                /\ result'[t][1] = "Consistent") =>
                /\ result'[t][2] >= last_value[t]
                /\ (result[t][1] = "Consistent"
                      => result'[t][2] >= result[t][2])]_vars

\* C24 witness: the reader, whose previous get() returned Consistent(1), is
\* about to return from a get() that loaded 2 from both slots.
C24_Witness ==
    /\ ~protected
    /\ initial_value = 0
    /\ Cardinality(Writers) = 1
    /\ \E t \in Readers :
          /\ result[t] = <<"Consistent", 1>>
          /\ last_value[t] = 1
          /\ pc[t] = "get_ret"
          /\ local_data[t] = 2
          /\ remote_data[t] = 2

====
